---- MODULE Spec2Model ----
(***************************************************************************)
(* The word-chaining game of src/app.py (single player) and src/main.py   *)
(* (two players).  One step of the model is one run of the page script    *)
(* main(), triggered by a click on one of the page's buttons; the state   *)
(* is the per-session store st.session_state.                             *)
(* The variables hold the store of the session whose script runs; the     *)
(* store of a second session of the same server is kept beside it.        *)
(*                                                                         *)
(* A word is a sequence of one-character strings, "" is <<>>.             *)
(***************************************************************************)
EXTENDS Integers, Sequences, FiniteSets, TLC

\* Longest text typed into the input field.
MaxLen == 2
\* Longest word history explored in one game.
MaxHist == 2
\* Largest value of input_key_counter explored in one session.
MaxKey == 4

\* The characters a user types: one letter in lower and in upper case, which
\* Python compares as two different characters, and one whitespace character.
Chars == {"a", "A", " "}
\* The characters str.strip() removes.
Whitespace == {" "}

\* Every text of at most MaxLen characters.
Inputs == UNION {[1..n -> Chars] : n \in 0..MaxLen}

\* The two game pages.
Pages == {"app", "main"}

\* current_player of the single-player page, whose session has no such key.
NoPlayer == "none"

\* The subheader of a run that returned before rendering it.
NoHeader == <<>>

VARIABLES
  page,               \* which script the session runs: "app" or "main"
  word_history,       \* st.session_state.word_history
  current_turn,       \* st.session_state.current_turn
  last_word,          \* st.session_state.last_word
  game_over,          \* st.session_state.game_over
  message,            \* st.session_state.message
  current_player,     \* st.session_state.current_player (main.py only)
  input_key_counter,  \* st.session_state.input_key_counter (main.py only)
  clicked,            \* the button whose click triggered the latest run,
                      \* "none" for a run no button triggered
  user_input,         \* the text the latest submission read from the field
  outcome,            \* the exit the latest run took out of main()
  header,             \* the turn and player the subheader of the latest run
                      \* shows, NoHeader when the run rendered none
  running,            \* the session whose script runs: the variables above
                      \* are its st.session_state and its browser's view
  other               \* st.session_state of the other session of the server

\* The word-chaining game and its two sessions.
game_vars == <<page, word_history, current_turn, last_word, game_over,
               message, current_player, input_key_counter, clicked,
               user_input, outcome, header, running, other>>

VARIABLES
  db_file,            \* os.path.exists(DATABASE_FILE)
  etfs,               \* the rows of table etfs of the file, in rowid order
  update_clicked,     \* whether the latest run of the SaveDB page was
                      \* triggered by "ETF 데이터 업데이트 및 저장"
  attempted,          \* the symbols the update loop of that run took up
  answers,            \* what yfinance answered for each symbol of the list
  fetched_count,      \* fetched_count as st.success reports it
  progress,           \* the last value given to progress_bar, in percent
  conn_open,          \* whether the update's connection is still open
  df_etfs_in_db,      \* the script variable df_etfs_in_db of that run
  export_section      \* what the CSV export section of that run showed

\* The SaveDB page: the database file and the latest run of its script.
db_vars == <<db_file, etfs, update_clicked, attempted, answers,
             fetched_count, progress, conn_open, df_etfs_in_db,
             export_section>>

VARIABLES
  dash,               \* which dashboard the session runs: "top10" or
                      \* "all_weather"
  session_state,      \* st.session_state of the dashboard: key -> value
  show_benchmark,     \* the benchmark checkbox of the latest run
  fetch_clicked,      \* whether "데이터 가져오기" triggered the latest run
  fetched,            \* the symbols whose fetch succeeded in that run
  raised,             \* the exception that ended that run, NoError if none
  tabs                \* for each tab of that run, in order, the data shown

\* The two ETF dashboards: the session and the latest run of the script.
dash_vars == <<dash, session_state, show_benchmark, fetch_clicked, fetched,
               raised, tabs>>

\* The data pages, which the game pages never touch.
tool_vars == <<db_vars, dash_vars>>

vars == <<game_vars, tool_vars>>

\* A script variable no statement of the run has assigned.
Unassigned == "unassigned"
\* A run that ended without an exception.
NoError == "none"

\* The SaveDB page before its first run, on a deployment without a database.
DbClosed ==
  /\ db_file = FALSE
  /\ etfs = <<>>
  /\ update_clicked = FALSE
  /\ attempted = <<>>
  /\ answers = <<>>
  /\ fetched_count = 0
  /\ progress = 0
  /\ conn_open = FALSE
  /\ df_etfs_in_db = Unassigned
  /\ export_section = "none"

\* A dashboard session before its first run: st.session_state is empty.
DashFresh ==
  /\ session_state = <<>>
  /\ show_benchmark = TRUE
  /\ fetch_clicked = FALSE
  /\ fetched = {}
  /\ raised = NoError
  /\ tabs = <<>>

\* No dashboard opened.
DashClosed == dash = "none" /\ DashFresh

\* The fields of the game proper.
game == <<word_history, current_turn, last_word, game_over, message,
          current_player, input_key_counter>>

----------------------------------------------------------------------------
(* Strings *)

Min(S) == CHOOSE x \in S : \A y \in S : x <= y
Max(S) == CHOOSE x \in S : \A y \in S : x >= y

\* str.strip(), which returns s unchanged: the slip of forgetting to trim.
strip_identity(s) == s

\* str.strip(): s without its leading and trailing whitespace.
strip(s) ==
  LET keep == {i \in 1..Len(s) : s[i] \notin Whitespace}
  IN  IF keep = {} THEN <<>> ELSE SubSeq(s, Min(keep), Max(keep))

\* The messages, by what they name: kind, player, word, required character.
Msg(kind, player, word, ch) ==
  [kind |-> kind, player |-> player, word |-> word, ch |-> ch]

----------------------------------------------------------------------------
(* The checks of a submission, the same in app.py and main.py *)

\* str.lower() on one character and on a word.
Lower(c) == IF c = "A" THEN "a" ELSE c
Fold(w) == [i \in 1..Len(w) |-> Lower(w[i])]

\* The duplicate check comparing the words in lower case.
InHistory_ignoring_case(w, hist) ==
  \E i \in 1..Len(hist) : Fold(hist[i]) = Fold(w)

\* The duplicate check left out.
InHistory_never(w, hist) == FALSE

\* `new_word in st.session_state.word_history`: exact match with an entry.
InHistory(w, hist) == \E i \in 1..Len(hist) : hist[i] = w

\* The chaining check comparing with the first character of last_word.
BreaksChain_first_char(w, last) == last # <<>> /\ w[1] # last[1]

\* The chaining check left out.
BreaksChain_never(w, last) == FALSE

\* `if last_word: if new_word[0] != last_word[-1]`.
BreaksChain(w, last) == last # <<>> /\ w[1] # last[Len(last)]

\* The cascade with the chaining check placed before the duplicate check.
Verdict_chain_first(raw, hist, last) ==
  IF raw = <<>> THEN "rejected"
  ELSE LET new_word == strip(raw)
       IN  IF new_word = <<>> THEN "rejected"
           ELSE IF BreaksChain(new_word, last) THEN "chain_broken"
           ELSE IF InHistory(new_word, hist) THEN "duplicate"
           ELSE "accepted"

\* The cascade with the duplicate check made on the text as typed instead
\* of on the trimmed word.
Verdict_duplicate_on_raw(raw, hist, last) ==
  IF raw = <<>> THEN "rejected"
  ELSE LET new_word == strip(raw)
       IN  IF new_word = <<>> THEN "rejected"
           ELSE IF InHistory(raw, hist) THEN "duplicate"
           ELSE IF BreaksChain(new_word, last) THEN "chain_broken"
           ELSE "accepted"

\* The cascade of checks under `if st.button("제출")`, in the code's order:
\* which exit a submission of the text raw takes.
Verdict(raw, hist, last) ==
  IF raw = <<>> THEN "rejected"
  ELSE LET new_word == strip(raw)
       IN  IF new_word = <<>> THEN "rejected"
           ELSE IF InHistory(new_word, hist) THEN "duplicate"
           ELSE IF BreaksChain(new_word, last) THEN "chain_broken"
           ELSE "accepted"

\* The early return of a finished game left out.
game_over_return_missing == FALSE

\* `if st.session_state.game_over: ... return`: a finished game shows its
\* message and the new-game button, and the run goes no further.
game_over_return == game_over

\* The buttons the latest run rendered, by the exit it took: the new-game
\* button on the game-over screen; after an early return under the submit
\* button only what precedes it; the whole page otherwise.  app.py leaves an
\* accepted run at line 94, where writing the key of a widget already
\* instantiated raises, so its restart button is not rendered in that run.
rendered ==
  CASE outcome = "game_over_screen" -> {"new_game"}
    [] outcome \in {"rejected", "duplicate", "chain_broken"} -> {"submit"}
    [] outcome = "accepted" ->
         IF page = "app" THEN {"submit"} ELSE {"submit", "reset_button_bottom"}
    [] OTHER -> {"submit", "reset_button_bottom"}

----------------------------------------------------------------------------
(* Effects common to both pages *)

\* The history kept in a module-level list, which every session of the
\* server process would share: a write of one session shows in the other.
other_shares_history == [other EXCEPT !.word_history = word_history']

\* The store of the other session after a run of this session's script:
\* every assignment of app.py and main.py is to a key of st.session_state,
\* which belongs to the running session, so the other store is as it was.
other_after_run == other

\* An empty input treated like the game-ending failures.
reject_ends_game ==
  /\ message' = Msg("empty", NoPlayer, <<>>, "")
  /\ game_over' = TRUE
  /\ UNCHANGED <<word_history, current_turn, last_word, current_player,
                 input_key_counter>>

\* `st.session_state.message = "단어를 입력해주세요!"; return`.
reject ==
  /\ message' = Msg("empty", NoPlayer, <<>>, "")
  /\ UNCHANGED <<word_history, current_turn, last_word, game_over,
                 current_player, input_key_counter>>

\* The game-ending branch counting the losing submission as a turn.
end_game_advances_turn(msg) ==
  /\ game_over' = TRUE
  /\ message' = msg
  /\ current_turn' = current_turn + 1
  /\ UNCHANGED <<word_history, last_word, current_player,
                 input_key_counter>>

\* The game-ending branch that forgets to write the message.
end_game_keeps_message(msg) ==
  /\ game_over' = TRUE
  /\ UNCHANGED <<message, word_history, current_turn, last_word,
                 current_player, input_key_counter>>

\* `st.session_state.game_over = True; st.session_state.message = ...; return`.
end_game(msg) ==
  /\ game_over' = TRUE
  /\ message' = msg
  /\ UNCHANGED <<word_history, current_turn, last_word, current_player,
                 input_key_counter>>

----------------------------------------------------------------------------
(* src/app.py: the single-player page *)

\* initialize_game() keeping the turn counter of the previous game.
app_initialize_game_keeps_turn ==
  /\ word_history' = <<>>
  /\ last_word' = <<>>
  /\ game_over' = FALSE
  /\ message' = Msg("start", NoPlayer, <<>>, "")
  /\ UNCHANGED <<current_turn, current_player, input_key_counter>>

\* initialize_game() leaving last_word of the previous game in place.
app_initialize_game_keeps_last_word ==
  /\ word_history' = <<>>
  /\ current_turn' = 1
  /\ game_over' = FALSE
  /\ message' = Msg("start", NoPlayer, <<>>, "")
  /\ UNCHANGED <<last_word, current_player, input_key_counter>>

\* initialize_game() of app.py.
app_initialize_game ==
  /\ word_history' = <<>>
  /\ current_turn' = 1
  /\ last_word' = <<>>
  /\ game_over' = FALSE
  /\ message' = Msg("start", NoPlayer, <<>>, "")
  /\ UNCHANGED <<current_player, input_key_counter>>

\* The acceptance inserting the word at the front of the history.
app_accept_prepends(new_word) ==
  /\ Len(word_history) < MaxHist
  /\ word_history' = <<new_word>> \o word_history
  /\ last_word' = new_word
  /\ current_turn' = current_turn + 1
  /\ message' = Msg("accepted", NoPlayer, new_word, "")
  /\ UNCHANGED <<game_over, current_player, input_key_counter>>

\* The acceptance that forgets to advance the turn.
app_accept_keeps_turn(new_word) ==
  /\ Len(word_history) < MaxHist
  /\ word_history' = Append(word_history, new_word)
  /\ last_word' = new_word
  /\ UNCHANGED current_turn
  /\ message' = Msg("accepted", NoPlayer, new_word, "")
  /\ UNCHANGED <<game_over, current_player, input_key_counter>>

\* "모든 검사 통과 시" of app.py: the word is appended, becomes last_word,
\* and the turn advances.  The write to st.session_state.word_input that
\* follows raises after these assignments and changes none of them.
app_accept(new_word) ==
  /\ Len(word_history) < MaxHist
  /\ word_history' = Append(word_history, new_word)
  /\ last_word' = new_word
  /\ current_turn' = current_turn + 1
  /\ message' = Msg("accepted", NoPlayer, new_word, "")
  /\ UNCHANGED <<game_over, current_player, input_key_counter>>

\* The body with the `return` of the duplicate branch missing: the run
\* goes on to the chaining check and, if that passes, to the acceptance.
app_submit_duplicate_falls_through(raw) ==
  LET v == Verdict(raw, word_history, last_word)
      new_word == strip(raw)
  IN  CASE v = "rejected" -> outcome' = v /\ reject
        [] v = "chain_broken" \/ (v = "duplicate" /\ BreaksChain(new_word, last_word)) ->
             /\ outcome' = "chain_broken"
             /\ end_game(Msg("chain_broken", NoPlayer, new_word,
                             last_word[Len(last_word)]))
        [] OTHER ->
             /\ outcome' = "accepted"
             /\ Len(word_history) < MaxHist
             /\ word_history' = Append(word_history, new_word)
             /\ last_word' = new_word
             /\ current_turn' = current_turn + 1
             /\ game_over' = (v = "duplicate")
             /\ message' = Msg("accepted", NoPlayer, new_word, "")
             /\ UNCHANGED <<current_player, input_key_counter>>

\* The body with the chaining check lacking its `if last_word` guard and
\* comparing with the slice last_word[-1:], which is "" and equals no
\* character while there is no last word.
app_submit_chain_unguarded(raw) ==
  LET v == Verdict(raw, word_history, last_word)
      new_word == strip(raw)
      required == IF last_word = <<>> THEN ""
                  ELSE last_word[Len(last_word)]
  IN  CASE v = "rejected" -> outcome' = v /\ reject
        [] v = "duplicate" ->
             /\ outcome' = v
             /\ end_game(Msg("duplicate", NoPlayer, new_word, ""))
        [] v = "chain_broken" \/ last_word = <<>> ->
             /\ outcome' = "chain_broken"
             /\ end_game(Msg("chain_broken", NoPlayer, new_word, required))
        [] OTHER -> outcome' = v /\ app_accept(new_word)

\* The body of `if st.button("제출")` of app.py for the text raw.
app_submit(raw) ==
  LET v == Verdict(raw, word_history, last_word)
      new_word == strip(raw)
  IN  /\ outcome' = v
      /\ CASE v = "rejected" -> reject
           [] v = "duplicate" ->
                end_game(Msg("duplicate", NoPlayer, new_word, ""))
           [] v = "chain_broken" ->
                end_game(Msg("chain_broken", NoPlayer, new_word,
                             last_word[Len(last_word)]))
           [] OTHER -> app_accept(new_word)

\* The subheader as the run leaves it on the screen: st.subheader renders
\* the values the session state holds when the run reaches it, before the
\* submission is processed, and only st.experimental_rerun() after a reset
\* renders it again; the game-over screen returns before it.
header_of_run ==
  IF outcome' = "reset"
    THEN <<current_turn', current_player'>>
    ELSE IF game_over_return
           THEN NoHeader
           ELSE <<current_turn, current_player>>

\* One run of main() of app.py, triggered by a click on the button click
\* ("none": by an edit of the text field), with raw in the text field.
app_main(click, raw) ==
  /\ page = "app"
  /\ page' = page
  /\ running' = running
  /\ clicked' = click
  /\ IF game_over_return
       THEN IF click = "new_game"
              THEN app_initialize_game /\ outcome' = "reset"
                   /\ UNCHANGED user_input
              ELSE outcome' = "game_over_screen"
                   /\ UNCHANGED <<game, user_input>>
       ELSE CASE click = "submit" -> user_input' = raw /\ app_submit(raw)
              [] click = "reset_button_bottom" ->
                   app_initialize_game /\ outcome' = "reset"
                   /\ UNCHANGED user_input
              [] OTHER -> outcome' = "page" /\ UNCHANGED <<game, user_input>>
  /\ header' = header_of_run
  /\ other' = other_after_run
  /\ UNCHANGED tool_vars

----------------------------------------------------------------------------
(* src/main.py: the two-player page *)

\* initialize_game() leaving the player of the previous game in place.
main_initialize_game_keeps_player ==
  /\ input_key_counter < MaxKey
  /\ word_history' = <<>>
  /\ current_turn' = 1
  /\ last_word' = <<>>
  /\ game_over' = FALSE
  /\ message' = Msg("start", "A", <<>>, "")
  /\ UNCHANGED current_player
  /\ input_key_counter' = input_key_counter + 1

\* initialize_game() starting the key counter of the input field over, as
\* `st.session_state.input_key_counter = 1` would.
main_initialize_game_restarts_key ==
  /\ input_key_counter < MaxKey
  /\ word_history' = <<>>
  /\ current_turn' = 1
  /\ last_word' = <<>>
  /\ game_over' = FALSE
  /\ message' = Msg("start", "A", <<>>, "")
  /\ current_player' = "A"
  /\ input_key_counter' = 1

\* initialize_game() of main.py: the fresh game starts with player A, and
\* the key counter of the input field moves on.
main_initialize_game ==
  /\ input_key_counter < MaxKey
  /\ word_history' = <<>>
  /\ current_turn' = 1
  /\ last_word' = <<>>
  /\ game_over' = FALSE
  /\ message' = Msg("start", "A", <<>>, "")
  /\ current_player' = "A"
  /\ input_key_counter' = input_key_counter + 1

\* The acceptance advancing the turn on every word, as the single-player
\* page does.
main_accept_turn_every_word(new_word) ==
  /\ Len(word_history) < MaxHist
  /\ input_key_counter < MaxKey
  /\ word_history' = Append(word_history, new_word)
  /\ last_word' = new_word
  /\ message' = Msg("accepted", current_player, new_word, "")
  /\ current_player' = IF current_player = "A" THEN "B" ELSE "A"
  /\ current_turn' = current_turn + 1
  /\ input_key_counter' = input_key_counter + 1
  /\ UNCHANGED game_over

\* The acceptance composing its message after the player has switched, so
\* that the message names the player whose turn comes next.
main_accept_message_after_switch(new_word) ==
  /\ Len(word_history) < MaxHist
  /\ input_key_counter < MaxKey
  /\ word_history' = Append(word_history, new_word)
  /\ last_word' = new_word
  /\ IF current_player = "A"
       THEN current_player' = "B" /\ UNCHANGED current_turn
       ELSE current_player' = "A" /\ current_turn' = current_turn + 1
  /\ message' = Msg("accepted", current_player', new_word, "")
  /\ input_key_counter' = input_key_counter + 1
  /\ UNCHANGED game_over

\* "모든 검사 통과 시" of main.py: the word is appended and becomes
\* last_word, the message names the player who played it, then the player
\* switches, the turn advancing when A gets the turn back.
main_accept(new_word) ==
  /\ Len(word_history) < MaxHist
  /\ input_key_counter < MaxKey
  /\ word_history' = Append(word_history, new_word)
  /\ last_word' = new_word
  /\ message' = Msg("accepted", current_player, new_word, "")
  /\ IF current_player = "A"
       THEN current_player' = "B" /\ UNCHANGED current_turn
       ELSE current_player' = "A" /\ current_turn' = current_turn + 1
  /\ input_key_counter' = input_key_counter + 1
  /\ UNCHANGED game_over

\* The body of `if st.button("제출")` of main.py for the text raw.
main_submit(raw) ==
  LET v == Verdict(raw, word_history, last_word)
      new_word == strip(raw)
  IN  /\ outcome' = v
      /\ CASE v = "rejected" -> reject
           [] v = "duplicate" ->
                end_game(Msg("duplicate", current_player, new_word, ""))
           [] v = "chain_broken" ->
                end_game(Msg("chain_broken", current_player, new_word,
                             last_word[Len(last_word)]))
           [] OTHER -> main_accept(new_word)

\* One run of main() of main.py, triggered by a click on the button click
\* ("none": by an edit of the text field), with raw in the text field.
main_main(click, raw) ==
  /\ page = "main"
  /\ page' = page
  /\ running' = running
  /\ clicked' = click
  /\ IF game_over_return
       THEN IF click = "new_game"
              THEN main_initialize_game /\ outcome' = "reset"
                   /\ UNCHANGED user_input
              ELSE outcome' = "game_over_screen"
                   /\ UNCHANGED <<game, user_input>>
       ELSE CASE click = "submit" -> user_input' = raw /\ main_submit(raw)
              [] click = "reset_button_bottom" ->
                   main_initialize_game /\ outcome' = "reset"
                   /\ UNCHANGED user_input
              [] OTHER -> outcome' = "page" /\ UNCHANGED <<game, user_input>>
  /\ header' = header_of_run
  /\ other' = other_after_run
  /\ UNCHANGED tool_vars

----------------------------------------------------------------------------
(* The session *)

\* The session after its first run: "word_history" is not in the session
\* state, so main() calls initialize_game() and renders the page.
GameFresh ==
  /\ page \in Pages
  /\ word_history = <<>>
  /\ current_turn = 1
  /\ last_word = <<>>
  /\ game_over = FALSE
  /\ message = Msg("start", IF page = "main" THEN "A" ELSE NoPlayer, <<>>, "")
  /\ current_player = IF page = "main" THEN "A" ELSE NoPlayer
  /\ input_key_counter = IF page = "main" THEN 1 ELSE 0
  /\ clicked = "none"
  /\ user_input = <<>>
  /\ outcome = "page"
  /\ header = <<current_turn, current_player>>
  /\ running = 1
  /\ other = [word_history |-> word_history, current_turn |-> current_turn,
              last_word |-> last_word, game_over |-> game_over,
              message |-> message, current_player |-> current_player,
              input_key_counter |-> input_key_counter]

\* A session of a game page; no data page is open.
Init == GameFresh /\ DbClosed /\ DashClosed

\* The user clicks "제출" with some text in the field.
Submit ==
  /\ "submit" \in rendered
  /\ \E raw \in Inputs : app_main("submit", raw) \/ main_main("submit", raw)

\* The user clicks "새 게임 시작" on the game-over screen.
NewGame ==
  /\ "new_game" \in rendered
  /\ (app_main("new_game", <<>>) \/ main_main("new_game", <<>>))

\* The user clicks "게임 재시작" at the bottom of the page.
Restart ==
  /\ "reset_button_bottom" \in rendered
  /\ (app_main("reset_button_bottom", <<>>)
        \/ main_main("reset_button_bottom", <<>>))

\* The user edits the text field, which runs the script with no button
\* clicked.
Rerun ==
  /\ "submit" \in rendered
  /\ (app_main("none", <<>>) \/ main_main("none", <<>>))

Next == Submit \/ NewGame \/ Restart \/ Rerun

Spec == Init /\ [][Next]_vars

----------------------------------------------------------------------------
(* Two sessions of one server *)

\* The texts submitted where two sessions are explored together: an empty
\* one, a first word, a word that chains onto it, and a padded word that
\* chains onto that and breaks the chain after the first.
SessInputs == {<<>>, <<"a">>, <<"a", "A">>, <<"A", " ">>}

\* The user of a session clicks "제출" with one of these texts in the field.
SessSubmit ==
  /\ "submit" \in rendered
  /\ \E raw \in SessInputs :
       app_main("submit", raw) \/ main_main("submit", raw)

\* The next run is of the other session's script, triggered by no button:
\* it reads that session's own st.session_state and renders the game-over
\* screen or the page from it, while the store of the session that ran
\* before stays with that session.
Switch ==
  /\ running' = 3 - running
  /\ page' = page
  /\ other' = [word_history |-> word_history, current_turn |-> current_turn,
               last_word |-> last_word, game_over |-> game_over,
               message |-> message, current_player |-> current_player,
               input_key_counter |-> input_key_counter]
  /\ word_history' = other.word_history
  /\ current_turn' = other.current_turn
  /\ last_word' = other.last_word
  /\ game_over' = other.game_over
  /\ message' = other.message
  /\ current_player' = other.current_player
  /\ input_key_counter' = other.input_key_counter
  /\ clicked' = "none"
  /\ user_input' = <<>>
  /\ outcome' = IF other.game_over THEN "game_over_screen" ELSE "page"
  /\ header' = IF other.game_over
                THEN NoHeader
                ELSE <<other.current_turn, other.current_player>>
  /\ UNCHANGED tool_vars

SessNext == SessSubmit \/ NewGame \/ Restart \/ Rerun \/ Switch

\* Two sessions of the same page, their script runs interleaved in any
\* order.
SessSpec == Init /\ [][SessNext]_vars

----------------------------------------------------------------------------
(* src/pages/03_SaveDB.py: the ETF table and the page that fills it.     *)
(* src/pages/01_data.py and 04_Save-All-files.py hold the same database  *)
(* functions and the same update loop.  One step is one run of the page  *)
(* script.  A row is its symbol and its name; the five other columns are *)
(* written and replaced with the name.                                   *)

\* How many symbols of GLOBAL_ETFS the update goes through.
NumEtfs == 2
\* Most rows of table etfs explored.
MaxRows == 3

\* GLOBAL_ETFS, the first NumEtfs of its twelve symbols.
GLOBAL_ETFS ==
  SubSeq(<<"SPY", "IVV", "VOO", "QQQ", "DIA", "GRN", "VXUS", "VEA", "VWO",
           "GLD", "SLV", "BND">>, 1, NumEtfs)

\* Python's None, stored by sqlite3 as SQL NULL.
NULL == "NULL"
\* A key the dictionary ticker.info does not hold.
Missing == "missing"
\* The names yfinance reports for a fund.
ShortNames == {"x", "y"}

\* dict.get(key, default) on the value held under the key.
get(held, default) == IF held = Missing THEN default ELSE held

\* ticker.info of a symbol yfinance knows nothing about.
EmptyInfo == [symbol |-> Missing, shortName |-> Missing]

\* What `yf.Ticker(etf_symbol).info` can answer: an exception, a
\* dictionary without the keys, or the fund's symbol under some name.
Answers(etf_symbol) ==
  {[raises |-> TRUE, info |-> EmptyInfo],
   [raises |-> FALSE, info |-> EmptyInfo]}
    \cup {[raises |-> FALSE, info |-> [symbol |-> etf_symbol, shortName |-> n]]
            : n \in ShortNames}

\* The answers to one pass through GLOBAL_ETFS.
AnswerSeqs ==
  {a \in [1..Len(GLOBAL_ETFS) ->
            UNION {Answers(GLOBAL_ETFS[i]) : i \in 1..Len(GLOBAL_ETFS)}] :
     \A i \in 1..Len(GLOBAL_ETFS) : a[i] \in Answers(GLOBAL_ETFS[i])}

\* insert_etf_data(): INSERT OR REPLACE on `symbol TEXT PRIMARY KEY`.  The
\* row that holds the same symbol is deleted and the new row is added at
\* the end; a NULL symbol conflicts with no row, since SQLite admits NULL
\* in a primary key that is not INTEGER and holds NULLs to be distinct.
insert_etf_data(conn, etf_data) ==
  LET conflicts(row) == row.symbol # NULL /\ row.symbol = etf_data.symbol
      kept == {i \in 1..Len(conn) : ~conflicts(conn[i])}
      ranked(i) == Cardinality({j \in kept : j <= i})
      rest == [n \in 1..Cardinality(kept) |->
                 conn[CHOOSE i \in kept : ranked(i) = n]]
  IN  Append(rest, [symbol |-> etf_data.symbol, name |-> etf_data.name])

\* fetch_all_etfs(): the rows of the table, an empty DataFrame if none.
fetch_all_etfs(conn) == conn

\* The update loop giving up at the first symbol that fails.
RECURSIVE update_loop_stops_on_failure(_, _, _)
update_loop_stops_on_failure(run, given, i) ==
  IF i > Len(GLOBAL_ETFS)
    THEN run
    ELSE LET etf_symbol == GLOBAL_ETFS[i]
             info == given[i].info
             etf_info == [symbol |-> get(info.symbol, NULL),
                          name |-> get(info.shortName, "N/A")]
             tried == [run EXCEPT !.attempted = Append(@, etf_symbol)]
         IN  IF given[i].raises
               THEN tried
               ELSE update_loop_stops_on_failure(
                      [tried EXCEPT
                         !.conn = insert_etf_data(@, etf_info),
                         !.fetched_count = @ + 1,
                         !.progress = (i * 100) \div Len(GLOBAL_ETFS)],
                      given, i + 1)

\* `for i, etf_symbol in enumerate(GLOBAL_ETFS)` from its i-th symbol on:
\* the info is fetched and inserted and fetched_count grows, or the
\* exception is caught and reported; either way the progress bar moves on.
RECURSIVE update_loop(_, _, _)
update_loop(run, given, i) ==
  IF i > Len(GLOBAL_ETFS)
    THEN run
    ELSE LET etf_symbol == GLOBAL_ETFS[i]
             info == given[i].info
             etf_info == [symbol |-> get(info.symbol, NULL),
                          name |-> get(info.shortName, "N/A")]
             tried == [run EXCEPT
                         !.attempted = Append(@, etf_symbol),
                         !.progress = (i * 100) \div Len(GLOBAL_ETFS)]
         IN  update_loop(
               IF given[i].raises
                 THEN tried
                 ELSE [tried EXCEPT
                         !.conn = insert_etf_data(@, etf_info),
                         !.fetched_count = @ + 1],
               given, i + 1)

\* The body of `if st.button("ETF 데이터 업데이트 및 저장")`: the connection
\* is opened, which creates the file, the table is created if it is not
\* there, the loop runs, and the connection is closed.
update_db_button(given) ==
  LET opened == [conn |-> etfs, open |-> TRUE, fetched_count |-> 0,
                 attempted |-> <<>>, progress |-> 0]
      looped == update_loop(opened, given, 1)
  IN  [looped EXCEPT !.open = FALSE]

\* The CSV export section: it reads df_etfs_in_db, and Python raises
\* NameError on a variable no statement has assigned.
csv_export_section(df) ==
  IF df = Unassigned
    THEN "NameError"
    ELSE IF df # <<>> THEN "download_button" ELSE "no_data_warning"

\* One run of the page script, triggered by the update button (click) or
\* by opening the page, with yfinance answering as given.
SaveDB_run(click, given) ==
  LET updated == update_db_button(given)
      exists == db_file \/ click
      table == IF click THEN updated.conn ELSE etfs
      df == IF exists THEN fetch_all_etfs(table) ELSE Unassigned
  IN  /\ Len(table) <= MaxRows
      /\ update_clicked' = click
      /\ answers' = given
      /\ db_file' = exists
      /\ etfs' = table
      /\ attempted' = IF click THEN updated.attempted ELSE <<>>
      /\ fetched_count' = IF click THEN updated.fetched_count ELSE 0
      /\ progress' = IF click THEN updated.progress ELSE 0
      /\ conn_open' = IF click THEN updated.open ELSE FALSE
      /\ df_etfs_in_db' = df
      /\ export_section' = csv_export_section(df)
      /\ UNCHANGED <<game_vars, dash_vars>>

\* The user opens or reloads the page.
OpenPage == SaveDB_run(FALSE, <<>>)

\* The user clicks "ETF 데이터 업데이트 및 저장".
UpdateClick == \E given \in AnswerSeqs : SaveDB_run(TRUE, given)

\* The page on a deployment that holds no database file yet.
DbInit == GameFresh /\ page = "app" /\ DbClosed /\ DashClosed

DbNext == OpenPage \/ UpdateClick

DbSpec == DbInit /\ [][DbNext]_vars

----------------------------------------------------------------------------
(* src/pages/05_claud-data.py and src/pages/ray_dalio_all_weather_app.py: *)
(* the two dashboards that fetch price data for a fixed list of ETFs and  *)
(* show it in one tab per ETF.  One step is one run of the page script.   *)
(* The price data of a symbol is the frame that carries the symbol in its *)
(* column Symbol.                                                         *)

\* How many ETFs of each dashboard's list are explored.
NumTabs == 3

Dashboards == {"top10", "all_weather"}

\* TOP_ETFS of the top-10 page, the symbols of its first NumTabs entries.
TOP_ETFS ==
  SubSeq(<<"SPY", "QQQ", "IVV", "VTI", "IEMG", "VEA", "VWO", "GLD", "VTV",
           "IWM">>, 1, NumTabs)

\* ALL_WEATHER_ETFS, the symbols of its first NumTabs entries.
ALL_WEATHER_ETFS ==
  SubSeq(<<"TLT", "SPY", "IEI", "GLD", "DBC">>, 1, NumTabs)

\* The list of the dashboard.
ETFS(d) == IF d = "top10" THEN TOP_ETFS ELSE ALL_WEATHER_ETFS

\* The symbols of a list.
Symbols(list) == {list[i] : i \in 1..Len(list)}

\* What get_etf_data returns where the fetch raised, and what a tab shows
\* that renders no data.
None == [Symbol |-> NULL]

\* get_etf_data(): the history of the symbol with `data['Symbol'] = symbol`,
\* or None where yfinance raised; ok holds the symbols yfinance answers for.
get_etf_data(symbol, ok) ==
  IF symbol \in ok THEN [Symbol |-> symbol] ELSE None

\* `for i, etf in enumerate(...)` of the fetch button, from the i-th entry
\* on: the data of a symbol is appended to all_data and etf_info, and
\* entered in data_dict, only if its fetch succeeded.
RECURSIVE fetch_loop(_, _, _, _)
fetch_loop(got, list, ok, i) ==
  IF i > Len(list)
    THEN got
    ELSE LET data == get_etf_data(list[i], ok)
         IN  fetch_loop(
               IF data # None
                 THEN [got EXCEPT
                         !.all_data = Append(@, data),
                         !.etf_info = Append(@, list[i]),
                         !.data_dict = (list[i] :> data) @@ @]
                 ELSE got,
               list, ok, i + 1)

\* calculate_portfolio_performance(): the weighted returns of the
\* allocated symbols that data_dict holds are summed up, and the cumulative
\* returns are computed from the sum; with none of them in data_dict the sum
\* is still None, and `1 + portfolio_returns` raises TypeError.
calculate_portfolio_performance(data_dict, allocations) ==
  LET held == allocations \cap DOMAIN data_dict
  IN  [raised |-> IF held = {} THEN "TypeError" ELSE NoError,
       returns |-> [sum_of |-> held],
       cumulative |-> [cumprod_of |-> held]]

\* The value the store holds after the keys of more are assigned.
assign(more, store) == more @@ store

\* One run of the script of the dashboard, triggered by the fetch button
\* (click) or by another widget, with the benchmark checkbox as given and
\* yfinance answering for the symbols of ok.
dash_run(click, benchmark, ok) ==
  LET list == ETFS(dash)
      looped == fetch_loop([all_data |-> <<>>, etf_info |-> <<>>,
                            data_dict |-> <<>>], list, ok, 1)
      all_weather == dash = "all_weather"
      data_dict == IF all_weather /\ benchmark /\ "AGG" \in ok
                     THEN ("AGG" :> get_etf_data("AGG", ok))
                            @@ looped.data_dict
                     ELSE looped.data_dict
      portfolio == calculate_portfolio_performance(data_dict, Symbols(list))
      error == IF click /\ all_weather THEN portfolio.raised ELSE NoError
      bench == calculate_portfolio_performance(data_dict, {"SPY", "AGG"})
      with_bench ==
        IF all_weather /\ benchmark /\ {"SPY", "AGG"} \subseteq DOMAIN data_dict
          THEN assign([benchmark_returns |-> bench.returns,
                       benchmark_cumulative |-> bench.cumulative],
                      session_state)
          ELSE session_state
      stored ==
        IF looped.all_data = <<>>
          THEN with_bench
          ELSE IF all_weather
                 THEN assign([all_data |-> looped.all_data,
                              etf_info |-> looped.etf_info,
                              data_dict |-> data_dict,
                              portfolio_returns |-> portfolio.returns,
                              portfolio_cumulative |-> portfolio.cumulative],
                             with_bench)
                 ELSE assign([all_data |-> looped.all_data,
                              etf_info |-> looped.etf_info],
                             with_bench)
      after == IF click /\ error = NoError THEN stored ELSE session_state
  IN  /\ fetch_clicked' = click
      /\ show_benchmark' = benchmark
      /\ fetched' = IF click THEN ok ELSE {}
      /\ raised' = error
      /\ session_state' = after
      /\ tabs' = IF error # NoError \/ "all_data" \notin DOMAIN after
                   THEN <<>>
                   ELSE [i \in 1..Len(list) |->
                           IF i <= Len(after.all_data)
                             THEN after.all_data[i]
                             ELSE None]
      /\ dash' = dash
      /\ UNCHANGED <<game_vars, db_vars>>

\* The settings of the benchmark checkbox, which only the all-weather page
\* has.
Checkbox == IF dash = "all_weather" THEN BOOLEAN ELSE {TRUE}

\* The user clicks "데이터 가져오기"; each fetch succeeds or fails.
FetchClick ==
  \E benchmark \in Checkbox :
    \E ok \in SUBSET (Symbols(ETFS(dash)) \cup
                        IF dash = "all_weather" /\ benchmark
                          THEN {"AGG"} ELSE {}) :
      dash_run(TRUE, benchmark, ok)

\* The user changes the period or the checkbox, or reloads the page: the
\* script runs with the button not clicked.
ViewDash == \E benchmark \in Checkbox : dash_run(FALSE, benchmark, {})

\* A fresh session of one of the two dashboards.
DashInit ==
  /\ GameFresh /\ page = "app"
  /\ DbClosed
  /\ dash \in Dashboards
  /\ DashFresh

DashNext == FetchClick \/ ViewDash

DashSpec == DashInit /\ [][DashNext]_vars

----------------------------------------------------------------------------
(* Properties *)

\* The text is empty or whitespace only.
IsBlank(s) == \A i \in 1..Len(s) : s[i] \in Whitespace

\* The step is a run that processes a submission: the submit button was
\* clicked while the game was not over.
Submitting == clicked' = "submit" /\ ~game_over

\* C1: in a game that is not over, a submission whose trimmed word is
\* non-empty, is not in the history and (when there is a last word) starts
\* with the last character of the last word is accepted: the history becomes
\* the old history with that word appended at the end, last_word becomes
\* the word, and the game is still not over.
C1_ValidWordAccepted ==
  [][(/\ Submitting
      /\ strip(user_input') # <<>>
      /\ ~InHistory(strip(user_input'), word_history)
      /\ (last_word # <<>> =>
            strip(user_input')[1] = last_word[Len(last_word)]))
     => (/\ word_history' = Append(word_history, strip(user_input'))
         /\ last_word' = strip(user_input')
         /\ ~game_over'
         /\ outcome' = "accepted")]_vars

\* C1 happens: a padded word that chains onto the first word was accepted
\* as the second word.
C1_Witness ==
  /\ outcome = "accepted"
  /\ Len(word_history) = 2
  /\ user_input # strip(user_input)
  /\ word_history[2] = strip(user_input)
  /\ last_word = strip(user_input)

\* C2: in a game that is not over, a submission of a word already in the
\* history ends the game as a duplicate, whether or not the word satisfies
\* the chaining rule: the duplicate check comes first.
C2_DuplicateEndsGame ==
  [][(Submitting /\ InHistory(strip(user_input'), word_history))
     => (/\ game_over'
         /\ outcome' = "duplicate"
         /\ message'.kind = "duplicate"
         /\ message'.word = strip(user_input'))]_vars

\* C2 happens: the game ended as a duplicate on a word that also breaks the
\* chain.
C2_Witness ==
  /\ game_over
  /\ outcome = "duplicate"
  /\ InHistory(strip(user_input), word_history)
  /\ strip(user_input)[1] # last_word[Len(last_word)]

\* C3: in a game that is not over and has a last word, a submission of a
\* non-empty word that is not in the history and whose first character
\* differs from the last character of the last word ends the game as a
\* broken chain.
C3_ChainBrokenEndsGame ==
  [][(/\ Submitting
      /\ last_word # <<>>
      /\ strip(user_input') # <<>>
      /\ ~InHistory(strip(user_input'), word_history)
      /\ strip(user_input')[1] # last_word[Len(last_word)])
     => (/\ game_over'
         /\ outcome' = "chain_broken"
         /\ message'.kind = "chain_broken")]_vars

\* C3 happens: the game ended on a new word that does not chain.
C3_Witness ==
  /\ game_over
  /\ outcome = "chain_broken"
  /\ ~InHistory(strip(user_input), word_history)
  /\ strip(user_input)[1] # last_word[Len(last_word)]

\* C4: once the game is over, no run processes a submission (a click on
\* the submit button ends at the game-over screen and changes nothing of
\* the game), and word_history, last_word, current_turn and current_player
\* keep their values in every step until initialize_game runs.
C4_FrozenWhenOver ==
  [][game_over =>
       /\ (clicked' = "submit" =>
             outcome' = "game_over_screen" /\ UNCHANGED game)
       /\ (\/ UNCHANGED <<word_history, last_word, current_turn,
                          current_player, game_over>>
           \/ outcome' = "reset")]_vars

\* C4 happens: a click on the submit button arrived after the game had
\* ended on a two-word history, and the run ended at the game-over screen.
C4_Witness ==
  /\ game_over
  /\ clicked = "submit"
  /\ outcome = "game_over_screen"
  /\ Len(word_history) = 2

\* C5: in every reachable state the entries of the history are pairwise
\* distinct.
C5_HistoryDistinct ==
  \A i, j \in 1..Len(word_history) :
    i # j => word_history[i] # word_history[j]

\* C5 happens: a word of a two-word history was submitted again and the
\* history still holds it once.
C5_Witness ==
  /\ Len(word_history) = 2
  /\ outcome = "duplicate"
  /\ Cardinality({i \in 1..2 : word_history[i] = strip(user_input)}) = 1

\* C6: in the two-player game the active player is A exactly when the
\* number of accepted words is even, and the turn number is 1 plus half
\* the number of accepted words, rounded down.
C6_TwoPlayerTurns ==
  page = "main" =>
    /\ current_player \in {"A", "B"}
    /\ (current_player = "A" <=> Len(word_history) % 2 = 0)
    /\ current_turn = 1 + (Len(word_history) \div 2)

\* C6 happens: two words were accepted from a fresh two-player game, and
\* the turn is back with A as turn 2.
C6_Witness ==
  /\ page = "main"
  /\ outcome = "accepted"
  /\ Len(word_history) = 2
  /\ current_player = "A"
  /\ current_turn = 2

\* C7: in the single-player game the turn number is 1 plus the number of
\* words in the history: it advances by one on every accepted word and on
\* nothing else.
C7_SoloTurns ==
  page = "app" => current_turn = 1 + Len(word_history)

\* C7 happens: the first word of a single-player game was accepted and the
\* turn is 2.
C7_Witness ==
  /\ page = "app"
  /\ outcome = "accepted"
  /\ Len(word_history) = 1
  /\ current_turn = 2

\* C8: in a game that is not over, a submission whose text is empty or
\* whitespace only is rejected: word_history, last_word, current_turn and
\* current_player keep their values and the game is still not over.
C8_BlankRejected ==
  [][(Submitting /\ IsBlank(user_input'))
     => (/\ outcome' = "rejected"
         /\ UNCHANGED <<word_history, last_word, current_turn,
                        current_player>>
         /\ ~game_over')]_vars

\* C8 happens: a whitespace-only text was rejected in a game with a word
\* played.
C8_Witness ==
  /\ outcome = "rejected"
  /\ user_input # <<>>
  /\ IsBlank(user_input)
  /\ word_history # <<>>
  /\ ~game_over

\* C9 as stated: a submission rejected for empty input leaves every field
\* of the game, message included, as it was.
C9_RejectionChangesNothing ==
  [][(Submitting /\ outcome' = "rejected") => UNCHANGED game]_vars

\* C9 as amended: a submission rejected for empty input leaves every field
\* of the game other than message as it was, and sets message to the
\* prompt asking for a word.
C9_RejectionChangesMessageOnly ==
  [][(Submitting /\ strip(user_input') = <<>>)
     => (/\ message'.kind = "empty"
         /\ UNCHANGED <<word_history, current_turn, last_word, game_over,
                        current_player, input_key_counter>>)]_vars

\* C9 happens: an empty text was rejected after an accepted word, and the
\* message no longer is the acceptance message.
C9_Witness ==
  /\ outcome = "rejected"
  /\ user_input = <<>>
  /\ last_word # <<>>
  /\ message.kind = "empty"

\* C10: a run of initialize_game leaves the history and last_word empty,
\* the turn at 1, the game not over and, in the two-player game, player A
\* active, whatever the game before it was.
C10_ResetIsFresh ==
  outcome = "reset" =>
    /\ word_history = <<>>
    /\ last_word = <<>>
    /\ current_turn = 1
    /\ ~game_over
    /\ (page = "main" => current_player = "A")

\* C10 happens: a new game was started from the game-over screen, that is
\* after a game with at least one word played.
C10_Witness ==
  /\ outcome = "reset"
  /\ clicked = "new_game"
  /\ word_history = <<>>

----------------------------------------------------------------------------
(* Properties of the outcomes *)

\* The four outcomes of a submission, each by what it does to the game.
IsRejected ==
  /\ message'.kind = "empty"
  /\ ~game_over'
  /\ UNCHANGED <<word_history, last_word>>

IsDuplicateWord ==
  /\ message'.kind = "duplicate"
  /\ game_over'
  /\ UNCHANGED <<word_history, last_word>>

IsChainBroken ==
  /\ message'.kind = "chain_broken"
  /\ game_over'
  /\ UNCHANGED <<word_history, last_word>>

IsAccepted ==
  /\ message'.kind = "accepted"
  /\ ~game_over'
  /\ word_history' = Append(word_history, message'.word)
  /\ last_word' = message'.word

\* How many of the four outcomes the step shows.
OutcomeCount ==
  (IF IsRejected THEN 1 ELSE 0) + (IF IsDuplicateWord THEN 1 ELSE 0)
    + (IF IsChainBroken THEN 1 ELSE 0) + (IF IsAccepted THEN 1 ELSE 0)

\* The session can still grow within the bounds of the exploration.
WithinBounds ==
  /\ Len(word_history) < MaxHist
  /\ input_key_counter < MaxKey

\* C11: every submission made while the game is not over shows exactly one
\* of the four outcomes rejected, duplicate, chain broken and accepted, the
\* one of the exit the run took; and every text can be submitted, so that
\* no text is left without an outcome.
C11_ExactlyOneOutcome ==
  /\ [](("submit" \in rendered /\ ~game_over /\ WithinBounds)
          => \A raw \in Inputs :
               ENABLED (app_main("submit", raw) \/ main_main("submit", raw)))
  /\ [][Submitting =>
          /\ OutcomeCount = 1
          /\ outcome' = "rejected" <=> IsRejected
          /\ outcome' = "duplicate" <=> IsDuplicateWord
          /\ outcome' = "chain_broken" <=> IsChainBroken
          /\ outcome' = "accepted" <=> IsAccepted]_vars

\* C11 happens: in one game a text was rejected after a word was accepted,
\* and the game has not ended.
C11_Witness ==
  /\ outcome = "rejected"
  /\ message.kind = "empty"
  /\ Len(word_history) = 1
  /\ ~game_over
  /\ clicked = "submit"

\* C12: a submission that ends the game, of a word already in the history
\* or of a new word that breaks the chain, changes only game_over and
\* message: the word is not appended, word_history, last_word,
\* current_turn and current_player keep their values, and the history
\* holds the submitted word at most once.
C12_GameEndChangesOnlyOverAndMessage ==
  [][(/\ Submitting
      /\ strip(user_input') # <<>>
      /\ \/ \E i \in 1..Len(word_history) :
              word_history[i] = strip(user_input')
         \/ /\ last_word # <<>>
            /\ strip(user_input')[1] # last_word[Len(last_word)])
     => (/\ game_over'
         /\ message' # message
         /\ UNCHANGED <<word_history, last_word, current_turn,
                        current_player, input_key_counter>>
         /\ Cardinality({i \in 1..Len(word_history') :
                           word_history'[i] = strip(user_input')}) <= 1)]_vars

\* C12 happens: in the two-player game B lost on the second word, which
\* was not appended, and B is still the active player of turn 1.
C12_Witness ==
  /\ page = "main"
  /\ game_over
  /\ outcome \in {"duplicate", "chain_broken"}
  /\ Len(word_history) = 1
  /\ current_player = "B"
  /\ current_turn = 1

\* C13: the game has two states.  game_over turns true only in a
\* submission of a duplicate or chain-breaking word, turns false only in a
\* run of initialize_game, and an accepted or rejected submission leaves
\* the game active.
C13_TwoStateMachine ==
  [][/\ (~game_over /\ game_over') =>
          /\ clicked' = "submit"
          /\ outcome' \in {"duplicate", "chain_broken"}
          /\ \/ InHistory(strip(user_input'), word_history)
             \/ BreaksChain(strip(user_input'), last_word)
     /\ (game_over /\ ~game_over') =>
          /\ clicked' = "new_game"
          /\ outcome' = "reset"
     /\ (Submitting /\ outcome' \in {"accepted", "rejected"}) =>
          ~game_over']_vars

\* C13 happens: a game that had ended on a submitted word was started anew
\* from the game-over screen and is active again.
C13_Witness ==
  /\ ~game_over
  /\ outcome = "reset"
  /\ clicked = "new_game"
  /\ strip(user_input) # <<>>
  /\ message.kind = "start"

\* C14: whenever the game is over, message names the word that ended it
\* and the reason: a duplicate names a word of the history, a broken chain
\* names a word and the character it had to start with, which is the last
\* character of last_word and is not the word's first character.
C14_GameOverMessage ==
  game_over =>
    /\ message.kind \in {"duplicate", "chain_broken"}
    /\ message.word = strip(user_input)
    /\ message.word # <<>>
    /\ message.kind = "duplicate" =>
         /\ InHistory(message.word, word_history)
         /\ outcome \in {"duplicate", "game_over_screen"}
    /\ message.kind = "chain_broken" =>
         /\ last_word # <<>>
         /\ message.ch = last_word[Len(last_word)]
         /\ message.word[1] # message.ch
         /\ outcome \in {"chain_broken", "game_over_screen"}

\* C14 happens: after "A" a word starting with "a" ended the game, and the
\* message names that word and the required "A".
C14_Witness ==
  /\ game_over
  /\ message.kind = "chain_broken"
  /\ message.ch = "A"
  /\ message.word[1] = "a"
  /\ message.word = strip(user_input)

\* C16: in every reachable state every two consecutive words of the
\* history chain: the first character of the later word is the last
\* character of the earlier one.
C16_HistoryChains ==
  \A i \in 1..(Len(word_history) - 1) :
    word_history[i + 1][1] = word_history[i][Len(word_history[i])]

\* C16 happens: a two-word history whose second word starts with the "A"
\* the first word ends with, the first word starting with "a".
C16_Witness ==
  /\ Len(word_history) = 2
  /\ word_history[1][1] = "a"
  /\ word_history[2][1] = "A"

\* C17: in every reachable state last_word is empty exactly when the
\* history is empty, and otherwise is the last word of the history.
C17_LastWordIsLastOfHistory ==
  /\ last_word = <<>> <=> word_history = <<>>
  /\ word_history # <<>> => last_word = word_history[Len(word_history)]

\* C17 happens: two words were accepted, and last_word is the second of
\* them and not the first.
C17_Witness ==
  /\ outcome = "accepted"
  /\ Len(word_history) = 2
  /\ last_word = word_history[2]
  /\ last_word # word_history[1]

\* C19: while there is no last word the chaining check is skipped: every
\* text whose trimmed word is non-empty is accepted as the first word,
\* whatever its first character.
C19_FirstWordAccepted ==
  [][(Submitting /\ last_word = <<>> /\ ~IsBlank(user_input'))
     => (/\ outcome' = "accepted"
         /\ word_history' = <<strip(user_input')>>
         /\ last_word' = strip(user_input')
         /\ ~game_over')]_vars

\* C19 happens: a padded text whose word starts with the upper-case letter
\* was accepted as the first word.
C19_Witness ==
  /\ outcome = "accepted"
  /\ Len(word_history) = 1
  /\ word_history[1][1] = "A"
  /\ user_input # word_history[1]

\* The word is not empty and neither starts nor ends with whitespace.
IsTrimmed(w) ==
  /\ w # <<>>
  /\ w[1] \notin Whitespace
  /\ w[Len(w)] \notin Whitespace

\* C18: a submission is evaluated on the trimmed text.  The step a run
\* takes on a text is the step the submit branch takes on the text's
\* trimmed form from the same state, with the same exit and the same
\* resulting game (so the duplicate check sees the trimmed word), and no
\* entry of the history is empty or starts or ends with whitespace.
C18_EvaluatedOnTrimmedInput ==
  /\ [](\A i \in 1..Len(word_history) : IsTrimmed(word_history[i]))
  /\ [][Submitting =>
          /\ page = "app" => app_submit(strip(user_input'))
          /\ page = "main" => main_submit(strip(user_input'))]_vars

\* C18 happens: a padded text was recognised as the duplicate of a word of
\* the history.
C18_Witness ==
  /\ game_over
  /\ outcome = "duplicate"
  /\ user_input # strip(user_input)
  /\ InHistory(strip(user_input), word_history)
  /\ ~InHistory(user_input, word_history)

\* C20: the duplicate check is case-sensitive.  A word that equals no entry
\* of the history exactly, though it equals one when case is ignored, is
\* not reported as a duplicate: the chaining rule alone decides whether it
\* is accepted or ends the game.
C20_DuplicateCheckCaseSensitive ==
  [][(/\ Submitting
      /\ strip(user_input') # <<>>
      /\ \A i \in 1..Len(word_history) :
           word_history[i] # strip(user_input')
      /\ \E i \in 1..Len(word_history) :
           Fold(word_history[i]) = Fold(strip(user_input')))
     => (/\ message'.kind # "duplicate"
         /\ IF strip(user_input')[1] = last_word[Len(last_word)]
              THEN outcome' = "accepted" /\ ~game_over'
              ELSE outcome' = "chain_broken" /\ game_over')]_vars

\* C20 happens: the second word accepted differs from the first only in
\* the case of its letters.
C20_Witness ==
  /\ outcome = "accepted"
  /\ Len(word_history) = 2
  /\ word_history[1] # word_history[2]
  /\ Fold(word_history[1]) = Fold(word_history[2])

\* C21: in the two-player game the message of an acceptance or of a game
\* end names the player who submitted the word, the active player before
\* the step: after an acceptance the turn has passed to the other player,
\* after a game-ending submission current_player still is the player who
\* lost.
C21_MessageNamesSubmitter ==
  [][(Submitting /\ page = "main") =>
       /\ outcome' = "accepted" =>
            /\ message'.kind = "accepted"
            /\ message'.player = current_player
            /\ current_player' # current_player
       /\ outcome' \in {"duplicate", "chain_broken"} =>
            /\ message'.kind = outcome'
            /\ message'.player = current_player
            /\ current_player' = current_player]_vars

\* C21 happens: player B's word was accepted, the message names B and the
\* turn is back with A.
C21_Witness ==
  /\ page = "main"
  /\ outcome = "accepted"
  /\ message.kind = "accepted"
  /\ message.player = "B"
  /\ current_player = "A"

\* C22: at the end of a run of the two-player page that accepted a word,
\* the turn and the player the subheader shows are the ones the session
\* state holds.
C22_HeaderShowsStoredState ==
  (page = "main" /\ outcome = "accepted")
    => header = <<current_turn, current_player>>

\* C23: on the two-player page input_key_counter grows by exactly 1 on
\* every accepted word and on every reset, stays as it is on a rejected and
\* on a game-ending submission, and never decreases, so the key of the
\* input field after an acceptance or a reset is larger than every key the
\* session used before.
C23_KeyCounterMoves ==
  [][page = "main" =>
       /\ (Submitting /\ outcome' = "accepted") =>
            input_key_counter' = input_key_counter + 1
       /\ clicked' \in {"new_game", "reset_button_bottom"} =>
            /\ outcome' = "reset"
            /\ input_key_counter' = input_key_counter + 1
       /\ (Submitting
             /\ outcome' \in {"rejected", "duplicate", "chain_broken"}) =>
            input_key_counter' = input_key_counter
       /\ input_key_counter' >= input_key_counter]_vars

\* C23 happens: a game that accepted a word and then ended was restarted
\* from the game-over screen, and the counter, which the first run set to
\* 1, stands at 3.
C23_Witness ==
  /\ page = "main"
  /\ clicked = "new_game"
  /\ outcome = "reset"
  /\ input_key_counter = 3

----------------------------------------------------------------------------
(* Properties of the SaveDB page, under DbSpec *)

\* The symbols of the latest update whose fetch and insert completed.
Stored == {i \in 1..Len(answers) : ~answers[i].raises}

\* C26: the CSV export section finds every variable it reads assigned:
\* in a run that found no database file it shows the no-data warning.
C26_ExportWarnsWithoutFile ==
  (export_section # "none" /\ ~db_file)
    => (df_etfs_in_db # Unassigned /\ export_section = "no_data_warning")

\* C27: an update takes up every symbol of GLOBAL_ETFS once, in list
\* order, whichever of them fail; it leaves the progress at 100% and the
\* connection closed, and it reports as many symbols as completed their
\* fetch and insert, a number between 0 and the length of the list.
C27_UpdateAttemptsEverySymbol ==
  update_clicked =>
    /\ attempted = GLOBAL_ETFS
    /\ progress = 100
    /\ ~conn_open
    /\ fetched_count = Cardinality(Stored)
    /\ fetched_count \in 0..Len(GLOBAL_ETFS)

\* C27 happens: the first symbol of the list failed, the last one was
\* stored after it, and the update reports the ones that were stored.
C27_Witness ==
  /\ update_clicked
  /\ answers[1].raises
  /\ ~answers[Len(GLOBAL_ETFS)].raises
  /\ fetched_count = Len(GLOBAL_ETFS) - 1
  /\ etfs # <<>>
  /\ etfs[Len(etfs)].symbol = GLOBAL_ETFS[Len(GLOBAL_ETFS)]

\* C28: the table holds at most one row per symbol, the row of a symbol
\* the latest update stored carries the values of that insert, and
\* inserting the record of the latest insert once more leaves the table
\* as it is.
C28_InsertIsUpsert ==
  /\ \A i, j \in 1..Len(etfs) : etfs[i].symbol = etfs[j].symbol => i = j
  /\ update_clicked =>
       \A i \in Stored :
         \E k \in 1..Len(etfs) :
           /\ etfs[k].symbol = get(answers[i].info.symbol, NULL)
           /\ etfs[k].name = get(answers[i].info.shortName, "N/A")
  /\ etfs # <<>> => insert_etf_data(etfs, etfs[Len(etfs)]) = etfs

----------------------------------------------------------------------------
(* Properties of the dashboards, under DashSpec *)

\* C24: every tab that shows price data shows the data fetched for the
\* symbol of its label, whichever fetches failed.
C24_TabShowsOwnSymbol ==
  \A i \in 1..Len(tabs) :
    tabs[i] # None => tabs[i].Symbol = ETFS(dash)[i]

\* C25: on the all-weather page a fetch in which every portfolio ETF fails
\* ends without an exception and leaves the session state as it was.
C25_AllFailedFetchCompletes ==
  [][(/\ dash = "all_weather"
      /\ fetch_clicked'
      /\ fetched' \cap Symbols(ALL_WEATHER_ETFS) = {})
     => (raised' = NoError /\ session_state' = session_state)]_vars

----------------------------------------------------------------------------
(* Properties of two sessions, under SessSpec *)

\* The fields of the other session's game.
OtherGame ==
  <<other.word_history, other.last_word, other.current_turn,
    other.current_player, other.game_over>>

\* The fields of the running session's game.
RunningGame ==
  <<word_history, last_word, current_turn, current_player, game_over>>

\* C15: the games of two sessions are independent.  A run of one session's
\* script, whatever it submits or resets, leaves word_history, last_word,
\* current_turn, current_player and game_over of the other session as they
\* were, and a session that runs again finds its game as its own last run
\* left it, in every interleaving of the two sessions' runs.
C15_SessionsIndependent ==
  [][/\ running' = running => OtherGame' = OtherGame
     /\ running' # running =>
          /\ OtherGame' = RunningGame
          /\ RunningGame' = OtherGame]_vars

\* C15 happens: the second session restarted its game while the first
\* session's game, two words long, is over, and the first session's game
\* is still there.
C15_Witness ==
  /\ running = 2
  /\ outcome = "reset"
  /\ word_history = <<>>
  /\ Len(other.word_history) = 2
  /\ other.game_over

====